---- MODULE Spec2Model ----
(***************************************************************************)
(* A model of the version/bug tracker of src/src/App.jsx: the semver       *)
(* helpers, the localStorage-backed state hook, the version / change / bug *)
(* operations of App, the aggregated bug feed and JSON import / export.    *)
(*                                                                         *)
(* Representation.  A JavaScript string is a sequence of one-character     *)
(* strings, so that trim, toLowerCase, includes and the semver regular     *)
(* expression are computed character by character.  A uuid() string is a   *)
(* positive integer (uuid is taken to be collision free: every call yields *)
(* a value no earlier call yielded); a null id is 0.                       *)
(* An ISO timestamp is the integer number of clock ticks it denotes.       *)
(* A JSON text is a sequence of tokens.                                    *)
(***************************************************************************)
EXTENDS Integers, Sequences, FiniteSets, TLC

\* ------------------------------------------------------------------ bounds
MaxSteps == 2        \* steps explored from each initial state
MaxReads == 1        \* file reads in flight at once
MaxBumps == 2        \* bump calls explored from each label (SpecBump)
MaxPending == 2      \* reads already in flight when the page is opened (SpecImports)

\* ------------------------------------------------------------- JS strings
Digits == <<"0","1","2","3","4","5","6","7","8","9">>
Upper == <<"A","B","C","D","E","F","G","H","I","J","K","L","M","N","O","P","Q","R","S","T","U","V","W","X","Y","Z">>
Lower == <<"a","b","c","d","e","f","g","h","i","j","k","l","m","n","o","p","q","r","s","t","u","v","w","x","y","z">>
WhiteSpace == {" ", "\t", "\n"}

SetMin(S) == CHOOSE x \in S : \A y \in S : x <= y
SetMax(S) == CHOOSE x \in S : \A y \in S : x >= y

\* String.prototype.trim
trim(s) ==
    LET keep == {i \in 1..Len(s) : s[i] \notin WhiteSpace}
    IN  IF keep = {} THEN <<>> ELSE SubSeq(s, SetMin(keep), SetMax(keep))

\* String.prototype.toLowerCase
toLowerCase(s) ==
    [i \in 1..Len(s) |->
        IF \E k \in 1..26 : Upper[k] = s[i]
        THEN Lower[CHOOSE k \in 1..26 : Upper[k] = s[i]]
        ELSE s[i]]

\* String.prototype.includes
includes(s, q) ==
    \E i \in 0..(Len(s) - Len(q)) : SubSeq(s, i + 1, i + Len(q)) = q

\* Array.prototype.join over an array of strings
RECURSIVE join(_, _)
join(arr, sep) ==
    IF arr = <<>> THEN <<>>
    ELSE IF Len(arr) = 1 THEN arr[1]
    ELSE arr[1] \o sep \o join(Tail(arr), sep)

IsDigit(c) == \E k \in 1..10 : Digits[k] = c
DigitVal(c) == (CHOOSE k \in 1..10 : Digits[k] = c) - 1

\* unary plus on a string of decimal digits
RECURSIVE ToNumber(_)
ToNumber(ds) ==
    IF ds = <<>> THEN 0
    ELSE ToNumber(SubSeq(ds, 1, Len(ds) - 1)) * 10 + DigitVal(ds[Len(ds)])

\* a non-negative integer inside a template literal
RECURSIVE NumberToString(_)
NumberToString(n) ==
    IF n < 10 THEN <<Digits[n + 1]>>
    ELSE NumberToString(n \div 10) \o <<Digits[(n % 10) + 1]>>

\* ---------------------------------------------------------- semver helpers
null == [null |-> TRUE]

\* /^v?(\d+)\.(\d+)\.(\d+)$/ on the trimmed label
parseSemver(label) ==
    LET t == trim(label)
        body == IF Len(t) > 0 /\ t[1] = "v" THEN Tail(t) ELSE t
        dots == {i \in 1..Len(body) : body[i] = "."}
        d1 == SetMin(dots)
        d2 == SetMax(dots)
        m1 == SubSeq(body, 1, d1 - 1)
        m2 == SubSeq(body, d1 + 1, d2 - 1)
        m3 == SubSeq(body, d2 + 1, Len(body))
        digits(p) == p # <<>> /\ \A i \in 1..Len(p) : IsDigit(p[i])
    IN  IF Cardinality(dots) = 2 /\ digits(m1) /\ digits(m2) /\ digits(m3)
        THEN [maj |-> ToNumber(m1), min |-> ToNumber(m2), pat |-> ToNumber(m3)]
        ELSE null

semverString(maj, min, pat) ==
    <<"v">> \o NumberToString(maj) \o <<".">> \o NumberToString(min)
            \o <<".">> \o NumberToString(pat)

\* a faulty variant: a minor bump that keeps the patch number
bumpSemverKeepsPatch(label, kind) ==
    LET p == parseSemver(label)
        v == IF p = null THEN [maj |-> 0, min |-> 0, pat |-> 0] ELSE p
    IN  IF kind = "major" THEN semverString(v.maj + 1, 0, 0)
        ELSE IF kind = "minor" THEN semverString(v.maj, v.min + 1, v.pat)
        ELSE semverString(v.maj, v.min, v.pat + 1)

bumpSemver(label, kind) ==
    LET p == parseSemver(label)
        v == IF p = null THEN [maj |-> 0, min |-> 0, pat |-> 0] ELSE p
    IN  IF kind = "major" THEN semverString(v.maj + 1, 0, 0)
        ELSE IF kind = "minor" THEN semverString(v.maj, v.min + 1, 0)
        ELSE semverString(v.maj, v.min, v.pat + 1)

\* -------------------------------------------------------------- data model
\* Ids drawn by uuid() are 1, 2, 3, ...; ids that only a stored or imported
\* document carries are above ForeignBase.
ForeignBase == 100

VersionKeys == {"id", "label", "date", "summary", "notes", "changes", "bugs"}
IsVersion(e) == DOMAIN e = VersionKeys

\* --------------------------------------------------------------- JSON text
\* A JSON text is a sequence of tokens [k, v]: the punctuation "[", "]", "{",
\* "}", ",", ":"; "key" (a member name); "string" (v: the characters), "word"
\* (a string holding one of the enumerated words, v: the word), "uuid" (a
\* string holding an id), "iso" (a string holding a timestamp); "number";
\* "null"; and "ws" (a line break and v spaces, as JSON.stringify indents).
Tok(k, v) == [k |-> k, v |-> v]
P(k) == Tok(k, 0)
Ws(indent, depth) == IF indent = 0 THEN <<>> ELSE <<Tok("ws", indent * depth)>>

RECURSIVE Flatten(_)
Flatten(ss) == IF ss = <<>> THEN <<>> ELSE Head(ss) \o Flatten(Tail(ss))

\* the items of an array or the members of an object, between open and close
Bracketed(open, close, items, indent, depth) ==
    IF items = <<>> THEN <<P(open), P(close)>>
    ELSE <<P(open)>>
         \o Flatten([i \in 1..Len(items) |->
                Ws(indent, depth + 1) \o items[i]
                \o (IF i < Len(items) THEN <<P(",")>> ELSE <<>>)])
         \o Ws(indent, depth) \o <<P(close)>>

Member(key, valueTokens) == <<Tok("key", key), P(":")>> \o valueTokens

StringifyStrings(arr, indent, depth) ==
    Bracketed("[", "]", [i \in 1..Len(arr) |-> <<Tok("string", arr[i])>>], indent, depth)

StringifyChange(c, indent, depth) ==
    Bracketed("{", "}",
        << Member("id", <<Tok("uuid", c.id)>>),
           Member("type", <<Tok("word", c.type)>>),
           Member("text", <<Tok("string", c.text)>>) >>, indent, depth)

\* a faulty variant: createdAt written where updatedAt belongs
StringifyBugCreatedTwice(b, indent, depth) ==
    Bracketed("{", "}",
        << Member("id", <<Tok("uuid", b.id)>>),
           Member("title", <<Tok("string", b.title)>>),
           Member("description", <<Tok("string", b.description)>>),
           Member("severity", <<Tok("word", b.severity)>>),
           Member("status", <<Tok("word", b.status)>>),
           Member("tags", StringifyStrings(b.tags, indent, depth + 1)),
           Member("createdAt", <<Tok("iso", b.createdAt)>>),
           Member("updatedAt", <<Tok("iso", b.createdAt)>>) >>, indent, depth)

StringifyBug(b, indent, depth) ==
    Bracketed("{", "}",
        << Member("id", <<Tok("uuid", b.id)>>),
           Member("title", <<Tok("string", b.title)>>),
           Member("description", <<Tok("string", b.description)>>),
           Member("severity", <<Tok("word", b.severity)>>),
           Member("status", <<Tok("word", b.status)>>),
           Member("tags", StringifyStrings(b.tags, indent, depth + 1)),
           Member("createdAt", <<Tok("iso", b.createdAt)>>),
           Member("updatedAt", <<Tok("iso", b.updatedAt)>>) >>, indent, depth)

StringifyVersion(v, indent, depth) ==
    Bracketed("{", "}",
        << Member("id", <<Tok("uuid", v.id)>>),
           Member("label", <<Tok("string", v.label)>>),
           Member("date", <<Tok("iso", v.date)>>),
           Member("summary", <<Tok("string", v.summary)>>),
           Member("notes", <<Tok("string", v.notes)>>),
           Member("changes", Bracketed("[", "]",
               [i \in 1..Len(v.changes) |-> StringifyChange(v.changes[i], indent, depth + 2)],
               indent, depth + 1)),
           Member("bugs", Bracketed("[", "]",
               [i \in 1..Len(v.bugs) |-> StringifyBug(v.bugs[i], indent, depth + 2)],
               indent, depth + 1)) >>, indent, depth)

\* an array element: a version object, null, or a number
StringifyElement(e, indent, depth) ==
    IF IsVersion(e) THEN StringifyVersion(e, indent, depth)
    ELSE IF e = null THEN <<P("null")>>
    ELSE <<Tok("number", e.number)>>

\* JSON.stringify(value, null, indent) of a state value: type is what
\* Array.isArray / typeof tell of it, arr its elements when it is an array
JSONstringify(type, arr, indent) ==
    IF type = "array"
    THEN Bracketed("[", "]",
            [i \in 1..Len(arr) |-> StringifyElement(arr[i], indent, 1)], indent, 0)
    ELSE IF type = "null" THEN <<P("null")>>
    ELSE IF type = "number" THEN <<Tok("number", 0)>>
    ELSE <<P("{"), P("}")>>

\* JSON.parse, by recursive descent; ok = FALSE is the SyntaxError
ParseFail == [ok |-> FALSE, type |-> "", val |-> null, rest |-> <<>>]
ParseOk(type, val, rest) == [ok |-> TRUE, type |-> type, val |-> val, rest |-> rest]
ScalarKinds == {"string", "word", "uuid", "iso", "number", "null"}

\* the object a member list builds: a later duplicate of a key wins
MakeObject(members) ==
    [key \in {members[i][1] : i \in 1..Len(members)} |->
        members[SetMax({i \in 1..Len(members) : members[i][1] = key})][2]]

RECURSIVE ParseValue(_), ParseElements(_, _), ParseMembers(_, _)
ParseValue(ts) ==
    IF ts = <<>> THEN ParseFail
    ELSE LET h == Head(ts) IN
         IF h.k = "[" THEN
            IF Len(ts) > 1 /\ ts[2].k = "]"
            THEN ParseOk("array", <<>>, SubSeq(ts, 3, Len(ts)))
            ELSE ParseElements(Tail(ts), <<>>)
         ELSE IF h.k = "{" THEN
            IF Len(ts) > 1 /\ ts[2].k = "}"
            THEN ParseOk("object", [x \in {} |-> null], SubSeq(ts, 3, Len(ts)))
            ELSE ParseMembers(Tail(ts), <<>>)
         ELSE IF h.k = "null" THEN ParseOk("null", null, Tail(ts))
         ELSE IF h.k = "number" THEN ParseOk("number", [number |-> h.v], Tail(ts))
         ELSE IF h.k \in ScalarKinds THEN ParseOk("string", h.v, Tail(ts))
         ELSE ParseFail

ParseElements(ts, acc) ==
    LET r == ParseValue(ts) IN
    IF ~r.ok \/ r.rest = <<>> THEN ParseFail
    ELSE IF Head(r.rest).k = "," THEN ParseElements(Tail(r.rest), Append(acc, r.val))
    ELSE IF Head(r.rest).k = "]" THEN ParseOk("array", Append(acc, r.val), Tail(r.rest))
    ELSE ParseFail

ParseMembers(ts, acc) ==
    IF Len(ts) < 3 \/ ts[1].k # "key" \/ ts[2].k # ":" THEN ParseFail
    ELSE LET r == ParseValue(SubSeq(ts, 3, Len(ts))) IN
         IF ~r.ok \/ r.rest = <<>> THEN ParseFail
         ELSE IF Head(r.rest).k = ","
              THEN ParseMembers(Tail(r.rest), Append(acc, <<ts[1].v, r.val>>))
         ELSE IF Head(r.rest).k = "}"
              THEN ParseOk("object", MakeObject(Append(acc, <<ts[1].v, r.val>>)), Tail(r.rest))
         ELSE ParseFail

IsWs(t) == t.k = "ws"
JSONparse(text) ==
    LET r == ParseValue(SelectSeq(text, LAMBDA t : ~IsWs(t)))
    IN  IF r.ok /\ r.rest = <<>> THEN r ELSE ParseFail

\* ------------------------------------------------------------- the program
VARIABLES
    localStorage,   \* the value under LS_KEY: [present, text]
    setItemThrows,  \* whether localStorage.setItem throws (quota exceeded)
    versionsType,   \* what the versions state is: "array", "null", "number", "object", "string"
    versions,       \* the versions state: its elements when it is an array
    rendered,       \* the versions the handlers of the last render closed over
    selectedId,     \* the selectedId state: an id, or NoId for null
    crashed,        \* a render threw: the component tree is unmounted
    reads,          \* FileReader reads in flight: the texts of the files
    download,       \* the file the last Export offered: [present, text]
    clock,          \* what nowISO() returns
    nextId,         \* what uuid() returns next
    steps,          \* handler runs so far
    last,           \* history: the last handler run
    prev,           \* history: versions before the last handler run
    prevSel         \* history: selectedId before the last handler run

vars == <<localStorage, setItemThrows, versionsType, versions, rendered, selectedId, crashed,
          reads, download, clock, nextId, steps, last, prev, prevSel>>

NoId == 0
MissingId == 99      \* an id no version, change or bug ever has
InitialClock == 3

\* { ...a, ...b }
Spread(a, b) ==
    [k \in DOMAIN a \cup DOMAIN b |-> IF k \in DOMAIN b THEN b[k] ELSE a[k]]

\* Array.prototype.filter with the elements to keep given by index
RECURSIVE FilterIdx(_, _, _)
FilterIdx(arr, keep, i) ==
    IF i > Len(arr) THEN <<>>
    ELSE (IF i \in keep THEN <<arr[i]>> ELSE <<>>) \o FilterIdx(arr, keep, i + 1)

\* versions.find((x) => x.id === id): the index of the first match, 0 for undefined
FindIndex(arr, id) ==
    LET hits == {i \in 1..Len(arr) : arr[i].id = id}
    IN  IF hits = {} THEN 0 ELSE SetMin(hits)

\* the seed, built when the module is evaluated: five uuid() calls
seed(id0, now) ==
    << [ id |-> id0,
         label |-> <<"v","0",".","1",".","0">>,
         date |-> now,
         summary |-> <<"I","n","i","t","i","a","l"," ","p","r","o","t","o","t","y","p","e"," ","w","i","t","h"," ","v","e","r","s","i","o","n","s"," ","+"," ","b","u","g","s">>,
         notes |-> <<"D","a","t","a"," ","i","s"," ","s","t","o","r","e","d"," ","i","n"," ","l","o","c","a","l","S","t","o","r","a","g","e","."," ","U","s","e"," ","E","x","p","o","r","t"," ","t","o"," ","s","a","v","e"," ","a"," ","J","S","O","N"," ","c","o","p","y",".">>,
         changes |-> <<
            [id |-> id0 + 1, type |-> "add", text |-> <<"V","e","r","s","i","o","n"," ","l","i","s","t"," ","w","i","t","h"," ","e","x","p","a","n","d","a","b","l","e"," ","d","e","t","a","i","l","s">>],
            [id |-> id0 + 2, type |-> "add", text |-> <<"B","u","g"," ","t","r","a","c","k","e","r"," ","w","i","t","h"," ","s","e","v","e","r","i","t","y"," ","&"," ","s","t","a","t","u","s">>],
            [id |-> id0 + 3, type |-> "change", text |-> <<"S","i","m","p","l","i","f","i","e","d"," ","U","I"," ","(","n","o"," ","e","x","t","e","r","n","a","l"," ","l","i","b","s",")">>] >>,
         bugs |-> <<
            [ id |-> id0 + 4,
              title |-> <<"W","h","e","e","l"," ","c","o","l","l","i","d","e","r"," ","s","l","i","p","s"," ","a","t"," ","h","i","g","h"," ","s","p","e","e","d">>,
              description |-> <<"F","e","e","l","s"," ","l","i","k","e"," ","1","9","7","0","s"," ","c","r","u","i","s","e","r"," ","o","n"," ","i","c","e",".">>,
              severity |-> "medium",
              status |-> "open",
              tags |-> << <<"p","h","y","s","i","c","s">>, <<"h","a","n","d","l","i","n","g">> >>,
              createdAt |-> now,
              updatedAt |-> now ] >> ] >>
SeedIds == 5

\* usePersistentState's initializer: the value the versions state starts with
load(storage, initial) ==
    IF ~storage.present \/ storage.text = <<>>
    THEN [type |-> "array", val |-> initial]
    ELSE LET r == JSONparse(storage.text)
         IN  IF r.ok THEN [type |-> r.type, val |-> IF r.type = "array" THEN r.val ELSE <<>>]
             ELSE [type |-> "array", val |-> initial]

\* a faulty variant: an empty collection is not written
saveUnlessEmpty(storage, throws, value) ==
    IF throws \/ value = <<>> THEN storage
    ELSE [present |-> TRUE, text |-> JSONstringify("array", value, 0)]

\* a faulty variant: a failed write leaves the key removed
saveOrRemove(storage, throws, value) ==
    IF throws THEN [present |-> FALSE, text |-> <<>>]
    ELSE [present |-> TRUE, text |-> JSONstringify("array", value, 0)]

\* usePersistentState's effect: what localStorage holds after it ran
save(storage, throws, value) ==
    IF throws THEN storage
    ELSE [present |-> TRUE, text |-> JSONstringify("array", value, 0)]

\* useState(versions[0]?.id || null)
firstId(type, arr) ==
    IF type = "array" /\ Len(arr) > 0 /\ IsVersion(arr[1]) THEN arr[1].id ELSE NoId

\* whether rendering App throws: versions.filter / v.bugs.filter on a value
\* that is no array of version objects
renderThrows(type, arr) ==
    type # "array" \/ \E i \in 1..Len(arr) : ~IsVersion(arr[i])

\* ------------------------------------------------------------ derived views
\* allBugs: every bug, annotated with its version
RECURSIVE allBugs(_)
allBugs(vs) ==
    IF vs = <<>> THEN <<>>
    ELSE [j \in 1..Len(vs[1].bugs) |->
             Spread(vs[1].bugs[j], [versionId |-> vs[1].id, versionLabel |-> vs[1].label])]
         \o allBugs(Tail(vs))

isOpen(b) == b.status # "resolved" /\ b.status # "closed"

\* a faulty variant: oldest first
byUpdatedAtAsc(a, b) == a.updatedAt - b.updatedAt

\* (a, b) => new Date(b.updatedAt) - new Date(a.updatedAt)
byUpdatedAtDesc(a, b) == b.updatedAt - a.updatedAt

\* Array.prototype.sort (stable) with byUpdatedAtDesc
RECURSIVE sortInsert(_, _)
sortInsert(sorted, x) ==
    IF sorted = <<>> THEN <<x>>
    ELSE IF byUpdatedAtDesc(Head(sorted), x) <= 0
         THEN <<Head(sorted)>> \o sortInsert(Tail(sorted), x)
         ELSE <<x>> \o sorted
RECURSIVE sort(_)
sort(arr) ==
    IF arr = <<>> THEN <<>>
    ELSE sortInsert(sort(SubSeq(arr, 1, Len(arr) - 1)), arr[Len(arr)])

visibleGlobalBugs(vs, globalBugQuery, globalSeverity, globalOnlyOpen) ==
    LET q == toLowerCase(trim(globalBugQuery))
        all == allBugs(vs)
        keep == {i \in 1..Len(all) :
                    /\ (globalOnlyOpen => isOpen(all[i]))
                    /\ (globalSeverity = "all" \/ all[i].severity = globalSeverity)
                    /\ \/ q = <<>>
                       \/ includes(toLowerCase(all[i].title), q)
                       \/ includes(toLowerCase(join(all[i].tags, <<" ">>)), q)
                       \/ includes(toLowerCase(all[i].description), q)}
    IN  sort(FilterIdx(all, keep, 1))

\* whether the search matches a version: q is the trimmed, lower-cased query
\* a faulty variant: the bug descriptions are searched too, as in the feed
matchesWithDescription(v, q) ==
    \/ includes(toLowerCase(v.label), q)
    \/ includes(toLowerCase(v.summary), q)
    \/ includes(toLowerCase(v.notes), q)
    \/ \E k \in 1..Len(v.changes) : includes(toLowerCase(v.changes[k].text), q)
    \/ \E j \in 1..Len(v.bugs) :
          \/ includes(toLowerCase(v.bugs[j].title), q)
          \/ includes(toLowerCase(join(v.bugs[j].tags, <<" ">>)), q)
          \/ includes(toLowerCase(v.bugs[j].description), q)

\* the predicate versions.filter is given
matches(v, q) ==
    \/ includes(toLowerCase(v.label), q)
    \/ includes(toLowerCase(v.summary), q)
    \/ includes(toLowerCase(v.notes), q)
    \/ \E k \in 1..Len(v.changes) : includes(toLowerCase(v.changes[k].text), q)
    \/ \E j \in 1..Len(v.bugs) :
          \/ includes(toLowerCase(v.bugs[j].title), q)
          \/ includes(toLowerCase(join(v.bugs[j].tags, <<" ">>)), q)

\* filtered: the versions the sidebar lists for the search box's query
filtered(vs, query) ==
    LET q == toLowerCase(trim(query))
    IN  IF q = <<>> THEN vs
        ELSE FilterIdx(vs, {i \in 1..Len(vs) : matches(vs[i], q)}, 1)

\* const selected = versions.find((v) => v.id === selectedId) || null
selectedIndex == FindIndex(versions, selectedId)

\* a faulty variant: only the status "open" is counted
RECURSIVE openBugsOnlyOpen(_)
openBugsOnlyOpen(vs) ==
    IF vs = <<>> THEN 0
    ELSE Cardinality({j \in 1..Len(vs[1].bugs) : vs[1].bugs[j].status = "open"})
         + openBugsOnlyOpen(Tail(vs))

\* openBugs
RECURSIVE openBugs(_)
openBugs(vs) ==
    IF vs = <<>> THEN 0
    ELSE Cardinality({j \in 1..Len(vs[1].bugs) : isOpen(vs[1].bugs[j])}) + openBugs(Tail(vs))

\* ---------------------------------------------------------- the operations
\* Each operation as a function of the versions it reads; id0 is the first id
\* uuid() yields during the call, now what nowISO() yields.
\* a faulty variant: the new label is a patch bump
addVersionPatch(vs, id0, now) ==
    LET base == IF Len(vs) > 0 /\ vs[1].label # <<>> THEN vs[1].label ELSE <<"v","0",".","0",".","0">>
        newV == [ id |-> id0, label |-> bumpSemver(base, "patch"), date |-> now,
                  summary |-> <<>>, notes |-> <<>>, changes |-> <<>>, bugs |-> <<>> ]
    IN  <<newV>> \o vs

addVersion(vs, id0, now) ==
    LET base == IF Len(vs) > 0 /\ vs[1].label # <<>> THEN vs[1].label ELSE <<"v","0",".","0",".","0">>
        newV == [ id |-> id0, label |-> bumpSemver(base, "minor"), date |-> now,
                  summary |-> <<>>, notes |-> <<>>, changes |-> <<>>, bugs |-> <<>> ]
    IN  <<newV>> \o vs

updateVersion(vs, id, patch) ==
    [i \in 1..Len(vs) |-> IF vs[i].id = id THEN Spread(vs[i], patch) ELSE vs[i]]

\* a faulty variant: the filter keeps the match instead of dropping it
deleteVersionKeepsMatch(vs, id) ==
    FilterIdx(vs, {i \in 1..Len(vs) : vs[i].id = id}, 1)

deleteVersion(vs, id) ==
    FilterIdx(vs, {i \in 1..Len(vs) : vs[i].id # id}, 1)

\* the k-th of the nowISO() calls of one handler run: the clock shows now at
\* the first call and moves on by one before the last `late` calls
stamp(k, calls, late, now) == IF k > calls - late THEN now + 1 ELSE now

\* the nowISO() calls duplicateVersion makes for v: date, then createdAt and
\* updatedAt of each bug
duplicateCalls(v) == 1 + 2 * Len(v.bugs)

\* a faulty variant: the copied bugs keep their status
duplicateCopyKeepsStatus(v, id0, now, late) ==
    Spread(v,
        [ id |-> id0,
          label |-> v.label \o <<"-","c","o","p","y">>,
          date |-> stamp(1, duplicateCalls(v), late, now),
          changes |-> [i \in 1..Len(v.changes) |-> Spread(v.changes[i], [id |-> id0 + i])],
          bugs |-> [j \in 1..Len(v.bugs) |->
                      Spread(v.bugs[j],
                        [ id |-> id0 + Len(v.changes) + j,
                          createdAt |-> stamp(2 * j, duplicateCalls(v), late, now),
                          updatedAt |-> stamp(2 * j + 1, duplicateCalls(v), late, now) ])] ])

\* a faulty variant: the copied changes keep their ids
duplicateCopyKeepsChangeIds(v, id0, now, late) ==
    Spread(v,
        [ id |-> id0,
          label |-> v.label \o <<"-","c","o","p","y">>,
          date |-> stamp(1, duplicateCalls(v), late, now),
          bugs |-> [j \in 1..Len(v.bugs) |->
                      Spread(v.bugs[j],
                        [ id |-> id0 + Len(v.changes) + j, status |-> "open",
                          createdAt |-> stamp(2 * j, duplicateCalls(v), late, now),
                          updatedAt |-> stamp(2 * j + 1, duplicateCalls(v), late, now) ])] ])

duplicateCopy(v, id0, now, late) ==
    Spread(v,
        [ id |-> id0,
          label |-> v.label \o <<"-","c","o","p","y">>,
          date |-> stamp(1, duplicateCalls(v), late, now),
          changes |-> [i \in 1..Len(v.changes) |-> Spread(v.changes[i], [id |-> id0 + i])],
          bugs |-> [j \in 1..Len(v.bugs) |->
                      Spread(v.bugs[j],
                        [ id |-> id0 + Len(v.changes) + j, status |-> "open",
                          createdAt |-> stamp(2 * j, duplicateCalls(v), late, now),
                          updatedAt |-> stamp(2 * j + 1, duplicateCalls(v), late, now) ])] ])

duplicateVersion(vs, id, id0, now, late) ==
    LET i == FindIndex(vs, id)
    IN  IF i = 0 THEN vs ELSE <<duplicateCopy(vs[i], id0, now, late)>> \o vs

\* a faulty variant: the new change is appended
addChangeAppends(vs, vid, type, text, id0) ==
    LET i == FindIndex(vs, vid)
    IN  IF i = 0 THEN vs
        ELSE updateVersion(vs, vid,
                [changes |-> vs[i].changes \o <<[id |-> id0, type |-> type, text |-> text]>>])

addChange(vs, vid, type, text, id0) ==
    LET i == FindIndex(vs, vid)
    IN  IF i = 0 THEN vs
        ELSE updateVersion(vs, vid,
                [changes |-> <<[id |-> id0, type |-> type, text |-> text]>> \o vs[i].changes])

removeChange(vs, vid, cid) ==
    LET i == FindIndex(vs, vid)
    IN  IF i = 0 THEN vs
        ELSE updateVersion(vs, vid,
                [changes |-> FilterIdx(vs[i].changes,
                                {k \in 1..Len(vs[i].changes) : vs[i].changes[k].id # cid}, 1)])

\* partial.key || dflt, for a string-valued key
OrElse(partial, key, dflt) ==
    IF key \in DOMAIN partial /\ partial[key] # <<>> THEN partial[key] ELSE dflt
\* partial.key || dflt, for a word-valued key
OrWord(partial, key, dflt) ==
    IF key \in DOMAIN partial THEN partial[key] ELSE dflt

\* nowISO() is called once for createdAt and once more for updatedAt: now, now2
newBug(partial, id0, now, now2) ==
    [ id |-> id0,
      title |-> OrElse(partial, "title", <<"U","n","t","i","t","l","e","d"," ","b","u","g">>),
      description |-> OrElse(partial, "description", <<>>),
      severity |-> OrWord(partial, "severity", "low"),
      status |-> OrWord(partial, "status", "open"),
      tags |-> IF "tags" \in DOMAIN partial THEN partial.tags ELSE <<>>,
      createdAt |-> now,
      updatedAt |-> now2 ]

addBug(vs, vid, partial, id0, now, now2) ==
    LET i == FindIndex(vs, vid)
    IN  IF i = 0 THEN vs
        ELSE updateVersion(vs, vid, [bugs |-> <<newBug(partial, id0, now, now2)>> \o vs[i].bugs])

\* a faulty variant: updatedAt is refreshed on every bug of the version
updateBugStampsAll(vs, vid, bid, patch, now) ==
    LET i == FindIndex(vs, vid)
    IN  IF i = 0 THEN vs
        ELSE updateVersion(vs, vid,
                [bugs |-> [j \in 1..Len(vs[i].bugs) |->
                             Spread(IF vs[i].bugs[j].id = bid
                                    THEN Spread(vs[i].bugs[j], patch)
                                    ELSE vs[i].bugs[j], [updatedAt |-> now])]])

updateBug(vs, vid, bid, patch, now) ==
    LET i == FindIndex(vs, vid)
    IN  IF i = 0 THEN vs
        ELSE updateVersion(vs, vid,
                [bugs |-> [j \in 1..Len(vs[i].bugs) |->
                             IF vs[i].bugs[j].id = bid
                             THEN Spread(Spread(vs[i].bugs[j], patch), [updatedAt |-> now])
                             ELSE vs[i].bugs[j]]])

deleteBug(vs, vid, bid) ==
    LET i == FindIndex(vs, vid)
    IN  IF i = 0 THEN vs
        ELSE updateVersion(vs, vid,
                [bugs |-> FilterIdx(vs[i].bugs,
                             {j \in 1..Len(vs[i].bugs) : vs[i].bugs[j].id # bid}, 1)])

\* doExport: the text of the file offered for download
doExport(vs) == JSONstringify("array", vs, 2)

\* a faulty variant: the selection is cleared before the text is checked
onloadClearsSelection(vs, sel, text) ==
    LET r == JSONparse(text)
    IN  IF r.ok /\ r.type = "array"
        THEN [versions |-> r.val, selectedId |-> firstId("array", r.val), alerted |-> FALSE]
        ELSE [versions |-> vs, selectedId |-> NoId, alerted |-> TRUE]

\* a faulty variant: the document is put in front of the current collection
onloadMerges(vs, sel, text) ==
    LET r == JSONparse(text)
    IN  IF r.ok /\ r.type = "array"
        THEN [versions |-> r.val \o vs, selectedId |-> firstId("array", r.val), alerted |-> FALSE]
        ELSE [versions |-> vs, selectedId |-> sel, alerted |-> TRUE]

\* reader.onload of doImport: what the read of a file with this text does
onload(vs, sel, text) ==
    LET r == JSONparse(text)
    IN  IF r.ok /\ r.type = "array"
        THEN [versions |-> r.val, selectedId |-> firstId("array", r.val), alerted |-> FALSE]
        ELSE [versions |-> vs, selectedId |-> sel, alerted |-> TRUE]

\* ------------------------------------------------------------------ inputs
\* A collection an earlier session left in localStorage, or exported to a file.
Stored ==
    << [ id |-> ForeignBase + 1, label |-> <<"v","1",".","2",".","3">>, date |-> 1,
         summary |-> <<"S","u","m">>, notes |-> <<>>,
         changes |-> << [id |-> ForeignBase + 11, type |-> "fix", text |-> <<"F","i","x"," ","i","t">>] >>,
         bugs |-> <<
            [ id |-> ForeignBase + 21, title |-> <<"C","r","a","s","h">>, description |-> <<>>,
              severity |-> "high", status |-> "closed", tags |-> << <<"u","i">> >>,
              createdAt |-> 1, updatedAt |-> 5 ],
            [ id |-> ForeignBase + 22, title |-> <<"L","a","g">>, description |-> <<"s","l","o","w">>,
              severity |-> "low", status |-> "open", tags |-> <<>>,
              createdAt |-> 2, updatedAt |-> 2 ] >> ],
       [ id |-> ForeignBase + 2, label |-> <<"n","o","t","-","a","-","v","e","r","s","i","o","n">>, date |-> 0,
         summary |-> <<>>, notes |-> <<"N">>,
         changes |-> <<>>,
         bugs |-> <<
            [ id |-> ForeignBase + 23, title |-> <<"L","e","a","k">>, description |-> <<>>,
              severity |-> "low", status |-> "in_progress", tags |-> <<>>,
              createdAt |-> 0, updatedAt |-> 3 ],
            [ id |-> ForeignBase + 24, title |-> <<"T","y","p","o">>, description |-> <<>>,
              severity |-> "medium", status |-> "resolved", tags |-> <<>>,
              createdAt |-> 1, updatedAt |-> 4 ] >> ] >>

\* A file whose two versions carry the same id.
Twins ==
    << [ id |-> ForeignBase + 3, label |-> <<"a">>, date |-> 0, summary |-> <<>>,
         notes |-> <<>>, changes |-> <<>>, bugs |-> <<>> ],
       [ id |-> ForeignBase + 3, label |-> <<"b">>, date |-> 0, summary |-> <<>>,
         notes |-> <<>>, changes |-> <<>>, bugs |-> <<>> ] >>

Absent == [present |-> FALSE, text |-> <<>>]
Present(text) == [present |-> TRUE, text |-> text]

MalformedText == <<P("["), P("null"), P(",")>>
NullText == <<P("null")>>
NumberText == <<Tok("number", 7)>>
ObjectText == <<P("{"), Tok("key", "versions"), P(":"), P("["), P("]"), P("}")>>
EmptyArrayText == <<P("["), P("]")>>
JunkArrayText == <<P("["), P("null"), P("]")>>

\* what localStorage may hold under LS_KEY when the page is first opened
StoredTexts ==
    { Absent, Present(MalformedText), Present(NullText), Present(NumberText),
      Present(ObjectText), Present(EmptyArrayText), Present(JunkArrayText),
      Present(JSONstringify("array", Stored, 0)) }

\* the files the user may pick for Import
Files ==
    { MalformedText, ObjectText, EmptyArrayText, JunkArrayText, doExport(Stored),
      doExport(Twins) }

LabelInput == <<"V","2">>
Patches == { [label |-> LabelInput], [label |-> <<>>], [summary |-> <<"N","e","w">>],
             [notes |-> <<>>] }
BumpKinds == {"major", "minor", "patch"}
ChangeTypes == {"fix"}
ChangeTexts == { <<" ","O","k"," ">>, <<" "," ">>, <<>> }
Partials ==
    { [title |-> <<"B","u","g">>, description |-> <<"d">>, severity |-> "critical", tags |-> << <<"T">> >>],
      [title |-> <<>>] }
BugPatches == { [status |-> "resolved"], <<>> }

\* ----------------------------------------------------------------- history
Note(op, vid, xid, arg, called, threw, alerted, text) ==
    /\ last' = [ op |-> op, vid |-> vid, xid |-> xid, arg |-> arg, called |-> called,
                 threw |-> threw, alerted |-> alerted, text |-> text,
                 now |-> clock, id0 |-> nextId ]
    /\ prev' = versions
    /\ prevSel' = selectedId
    /\ steps' = steps + 1

\* ------------------------------------------------------------------- mount
\* The page is opened with localStorage holding storage0: the module is
\* evaluated (seed), usePersistentState loads, App renders, the effect saves.
\* pending: the reads in flight
Mounted(storage0, pending) ==
    LET l == load(storage0, seed(1, InitialClock))
        bad == renderThrows(l.type, l.val)
    IN  /\ versionsType = l.type
        /\ versions = l.val
        /\ rendered = l.val
        /\ selectedId = firstId(l.type, l.val)
        /\ crashed = bad
        /\ setItemThrows = FALSE
        /\ localStorage = IF bad THEN storage0 ELSE save(storage0, FALSE, l.val)
        /\ reads = pending
        /\ download = Absent
        /\ clock = InitialClock
        /\ nextId = 1 + SeedIds
        /\ steps = 0
        /\ last = [ op |-> "mount", vid |-> NoId, xid |-> NoId, arg |-> "", called |-> FALSE,
                    threw |-> bad, alerted |-> FALSE, text |-> storage0.text,
                    now |-> InitialClock, id0 |-> 1 ]
        /\ prev = <<>>
        /\ prevSel = NoId

MountInit(storage0) == Mounted(storage0, {})

Init == \E storage0 \in StoredTexts : MountInit(storage0)

\* the page is reloaded
Reload ==
    /\ steps < MaxSteps
    /\ LET l == load(localStorage, seed(nextId, clock))
           bad == renderThrows(l.type, l.val)
       IN  /\ versionsType' = l.type
           /\ versions' = l.val
           /\ rendered' = l.val
           /\ selectedId' = firstId(l.type, l.val)
           /\ crashed' = bad
           /\ localStorage' = IF bad THEN localStorage ELSE save(localStorage, setItemThrows, l.val)
           /\ Note("mount", NoId, NoId, "", FALSE, bad, FALSE, localStorage.text)
    /\ reads' = {}
    /\ nextId' = nextId + SeedIds
    /\ UNCHANGED <<setItemThrows, download, clock>>

\* ------------------------------------------------------------- environment
Tick ==
    /\ steps < MaxSteps
    /\ clock' = clock + 1
    /\ Note("tick", NoId, NoId, "", FALSE, FALSE, FALSE, <<>>)
    /\ UNCHANGED <<localStorage, setItemThrows, versionsType, versions, rendered, selectedId,
                   crashed,
                   reads, download, nextId>>

\* the storage quota is reached, or space is freed again
Quota ==
    /\ steps < MaxSteps
    /\ setItemThrows' = ~setItemThrows
    /\ Note("quota", NoId, NoId, "", FALSE, FALSE, FALSE, <<>>)
    /\ UNCHANGED <<localStorage, versionsType, versions, rendered, selectedId, crashed,
                   reads, download, clock, nextId>>

\* ---------------------------------------------------------------- handlers
Handler == ~crashed /\ steps < MaxSteps

\* the state a handler leaves: React renders the new state, then the effect
\* of usePersistentState saves it when setVersions was given a new array
CommitAt(newVersions, newSelectedId, setCalled, idsUsed, newClock) ==
    LET bad == renderThrows("array", newVersions)
    IN  /\ versions' = newVersions
        /\ rendered' = newVersions
        /\ selectedId' = newSelectedId
        /\ crashed' = bad
        /\ localStorage' = IF setCalled /\ ~bad
                           THEN save(localStorage, setItemThrows, newVersions)
                           ELSE localStorage
        /\ nextId' = nextId + idsUsed
        /\ clock' = newClock
        /\ UNCHANGED <<setItemThrows, versionsType, reads, download>>

Commit(newVersions, newSelectedId, setCalled, idsUsed) ==
    CommitAt(newVersions, newSelectedId, setCalled, idsUsed, clock)

\* a handler that threw before it set any state
Thrown(op) ==
    /\ Note(op, NoId, NoId, "", FALSE, TRUE, FALSE, <<>>)
    /\ UNCHANGED <<localStorage, setItemThrows, versionsType, versions, rendered, selectedId,
                   crashed,
                   reads, download, clock, nextId>>

VersionIds == {versions[i].id : i \in 1..Len(versions)}
\* the version ids the operations are called with: the selected version's, as
\* the main panel does, or one that matches no version
Targets == (IF selectedIndex = 0 THEN {} ELSE {versions[selectedIndex].id}) \cup {MissingId}
ChangeIds(vid) ==
    LET i == FindIndex(versions, vid)
    IN  IF i = 0 THEN {} ELSE {versions[i].changes[k].id : k \in 1..Len(versions[i].changes)}
BugIds(vid) ==
    LET i == FindIndex(versions, vid)
    IN  IF i = 0 THEN {} ELSE {versions[i].bugs[j].id : j \in 1..Len(versions[i].bugs)}
Found(vid) == FindIndex(versions, vid) # 0

AddVersion ==
    /\ Handler
    /\ Commit(addVersion(rendered, nextId, clock), nextId, TRUE, 1)
    /\ Note("addVersion", nextId, NoId, "", TRUE, FALSE, FALSE, <<>>)

UpdateVersion ==
    /\ Handler
    /\ \E id \in Targets, patch \in Patches :
        /\ Commit(updateVersion(versions, id, patch), selectedId, TRUE, 0)
        /\ Note("updateVersion", id, NoId, CHOOSE k \in DOMAIN patch : TRUE,
                TRUE, FALSE, FALSE, <<>>)

\* updateVersion(selected.id, { label: bumpSemver(selected.label, kind) })
BumpSelected(kind) ==
    LET sel == versions[selectedIndex]
    IN  /\ Commit(updateVersion(versions, sel.id, [label |-> bumpSemver(sel.label, kind)]),
                  selectedId, TRUE, 0)
        /\ Note("bump", sel.id, NoId, kind, TRUE, FALSE, FALSE, <<>>)

\* the +Major / +Minor / +Patch buttons, rendered when a version is selected
BumpButton ==
    /\ Handler
    /\ selectedIndex # 0
    /\ \E kind \in BumpKinds : BumpSelected(kind)

DeleteCall(op, id) ==
    /\ Commit(deleteVersion(versions, id), IF selectedId = id THEN NoId ELSE selectedId, TRUE, 0)
    /\ Note(op, id, NoId, "", TRUE, FALSE, FALSE, <<>>)

DeleteVersion ==
    /\ Handler
    /\ \E id \in Targets : DeleteCall("deleteVersion", id)

\* the Delete button: deleteVersion(selected.id)
DeleteButton ==
    /\ Handler
    /\ IF selectedIndex = 0 THEN Thrown("deleteButton")
       ELSE DeleteCall("deleteButton", versions[selectedIndex].id)

\* ticking: whether the clock may move on between the nowISO() calls
DuplicateCallAt(op, id, ticking) ==
    LET i == FindIndex(rendered, id)
        used == IF i = 0 THEN 0 ELSE 1 + Len(rendered[i].changes) + Len(rendered[i].bugs)
        calls == IF i = 0 THEN 1 ELSE duplicateCalls(rendered[i])
    IN  \E late \in IF ticking THEN 0..(calls - 1) ELSE {0} :
            /\ CommitAt(duplicateVersion(rendered, id, nextId, clock, late),
                        IF i = 0 THEN selectedId ELSE nextId, i # 0, used,
                        IF late > 0 THEN clock + 1 ELSE clock)
            /\ Note(op, id, NoId, "", i # 0, FALSE, FALSE, <<>>)

DuplicateCall(op, id) == DuplicateCallAt(op, id, FALSE)

DuplicateVersion ==
    /\ Handler
    /\ \E id \in Targets : DuplicateCall("duplicateVersion", id)

\* the Duplicate button: duplicateVersion(selected.id)
DuplicateButton ==
    /\ Handler
    /\ IF selectedIndex = 0 THEN Thrown("duplicateButton")
       ELSE DuplicateCall("duplicateButton", versions[selectedIndex].id)

\* ChangeComposer's Add button, its onAdd being addChange(vid, ...)
AddChange ==
    /\ Handler
    /\ \E vid \in Targets, type \in ChangeTypes, raw \in ChangeTexts :
        LET text == trim(raw)
            call == text # <<>>
            hit == call /\ Found(vid)
        IN  /\ Commit(IF call THEN addChange(versions, vid, type, text, nextId) ELSE versions,
                      selectedId, hit, IF hit THEN 1 ELSE 0)
            /\ Note("addChange", vid, NoId, IF call THEN type ELSE "", hit, FALSE, FALSE, raw)

RemoveChange ==
    /\ Handler
    /\ \E vid \in Targets :
        \E cid \in ChangeIds(vid) \cup {MissingId} :
            /\ Commit(removeChange(versions, vid, cid), selectedId, Found(vid), 0)
            /\ Note("removeChange", vid, cid, "", Found(vid), FALSE, FALSE, <<>>)

AddBug ==
    /\ Handler
    /\ \E vid \in Targets, partial \in Partials :
        \E now2 \in IF Found(vid) THEN {clock, clock + 1} ELSE {clock} :
        /\ CommitAt(addBug(versions, vid, partial, nextId, clock, now2), selectedId, Found(vid),
                    IF Found(vid) THEN 1 ELSE 0, now2)
        /\ Note("addBug", vid, NoId, IF partial.title = <<>> THEN "untitled" ELSE "titled",
                Found(vid), FALSE, FALSE, <<>>)

UpdateBug ==
    /\ Handler
    /\ \E vid \in Targets, patch \in BugPatches :
        \E bid \in BugIds(vid) \cup {MissingId} :
            /\ Commit(updateBug(versions, vid, bid, patch, clock), selectedId, Found(vid), 0)
            /\ Note("updateBug", vid, bid, IF patch = <<>> THEN "" ELSE "status",
                    Found(vid), FALSE, FALSE, <<>>)

DeleteBug ==
    /\ Handler
    /\ \E vid \in Targets :
        \E bid \in BugIds(vid) \cup {MissingId} :
            /\ Commit(deleteBug(versions, vid, bid), selectedId, Found(vid), 0)
            /\ Note("deleteBug", vid, bid, "", Found(vid), FALSE, FALSE, <<>>)

\* a click on a version in the list, or on a bug's title in the feed
Select ==
    /\ Handler
    /\ \E id \in VersionIds :
        /\ Commit(versions, id, FALSE, 0)
        /\ Note("select", id, NoId, "", FALSE, FALSE, FALSE, <<>>)

\* the feed's Resolve button, shown for a bug that is not resolved or closed
FeedResolve ==
    /\ Handler
    /\ \E i \in 1..Len(allBugs(versions)) :
        LET b == allBugs(versions)[i]
        IN  /\ isOpen(b)
            /\ Commit(updateBug(versions, b.versionId, b.id, [status |-> "resolved"], clock),
                      b.versionId, TRUE, 0)
            /\ Note("feedResolve", b.versionId, b.id, "status", TRUE, FALSE, FALSE, <<>>)

\* the feed's Delete button
FeedDelete ==
    /\ Handler
    /\ \E i \in 1..Len(allBugs(versions)) :
        LET b == allBugs(versions)[i]
        IN  /\ Commit(deleteBug(versions, b.versionId, b.id), b.versionId, TRUE, 0)
            /\ Note("feedDelete", b.versionId, b.id, "", TRUE, FALSE, FALSE, <<>>)

Export ==
    /\ Handler
    /\ download' = Present(doExport(versions))
    /\ Note("export", NoId, NoId, "", FALSE, FALSE, FALSE, doExport(versions))
    /\ UNCHANGED <<localStorage, setItemThrows, versionsType, versions, rendered, selectedId,
                   crashed,
                   reads, clock, nextId>>

\* a faulty variant: the document is applied when the read is started
ImportStartEager ==
    /\ Handler
    /\ Cardinality(reads) < MaxReads
    /\ \E text \in Files \cup (IF download.present THEN {download.text} ELSE {}) :
        LET r == onload(versions, selectedId, text)
        IN  /\ reads' = reads \cup {text}
            /\ versions' = r.versions
            /\ rendered' = r.versions
            /\ selectedId' = r.selectedId
            /\ crashed' = renderThrows("array", r.versions)
            /\ Note("doImport", NoId, NoId, "", FALSE, FALSE, FALSE, text)
    /\ UNCHANGED <<localStorage, setItemThrows, versionsType, download, clock, nextId>>

\* the file input's onChange: doImport(file) starts reading the file
ImportStart ==
    /\ Handler
    /\ Cardinality(reads) < MaxReads
    /\ \E text \in Files \cup (IF download.present THEN {download.text} ELSE {}) :
        /\ reads' = reads \cup {text}
        /\ Note("doImport", NoId, NoId, "", FALSE, FALSE, FALSE, text)
    /\ UNCHANGED <<localStorage, setItemThrows, versionsType, versions, rendered, selectedId,
                   crashed,
                   download, clock, nextId>>

\* a read completes: reader.onload
ImportLoad ==
    /\ Handler
    /\ \E text \in reads :
        LET r == onload(versions, selectedId, text)
            bad == renderThrows("array", r.versions)
        IN  /\ versions' = r.versions
            /\ rendered' = r.versions
            /\ selectedId' = r.selectedId
            /\ crashed' = bad
            /\ localStorage' = IF ~r.alerted /\ ~bad
                               THEN save(localStorage, setItemThrows, r.versions)
                               ELSE localStorage
            /\ reads' = reads \ {text}
            /\ Note("onload", NoId, NoId, "", ~r.alerted, FALSE, r.alerted, text)
    /\ UNCHANGED <<setItemThrows, versionsType, download, clock, nextId>>

\* a read fails: the reader has no onerror, nothing runs
ImportError ==
    /\ Handler
    /\ \E text \in reads :
        /\ reads' = reads \ {text}
        /\ Note("readError", NoId, NoId, "", FALSE, FALSE, FALSE, text)
    /\ UNCHANGED <<localStorage, setItemThrows, versionsType, versions, rendered, selectedId,
                   crashed,
                   download, clock, nextId>>

Next ==
    \/ Reload \/ Tick \/ Quota
    \/ AddVersion \/ UpdateVersion \/ BumpButton
    \/ DeleteVersion \/ DeleteButton \/ DuplicateVersion \/ DuplicateButton
    \/ AddChange \/ RemoveChange \/ AddBug \/ UpdateBug \/ DeleteBug
    \/ Select \/ FeedResolve \/ FeedDelete
    \/ Export \/ ImportStart \/ ImportLoad \/ ImportError

Spec == Init /\ [][Next]_vars

\* ------------------------------------------------------- bumpSemver alone
\* Labels with the version they are meant to denote (sem = <<>>: none).
SemverCases ==
    { [text |-> <<"v","1",".","2",".","3">>, sem |-> <<1, 2, 3>>],
      [text |-> <<"1",".","2",".","3">>, sem |-> <<1, 2, 3>>],
      [text |-> <<"v","0",".","0",".","0">>, sem |-> <<0, 0, 0>>],
      [text |-> <<"v","9",".","9",".","9">>, sem |-> <<9, 9, 9>>],
      [text |-> <<"v","1","0",".","0",".","9","9">>, sem |-> <<10, 0, 99>>],
      [text |-> <<"v","0","1",".","0","0","2",".","0">>, sem |-> <<1, 2, 0>>],
      [text |-> <<" "," ","v","2",".","1","9",".","7"," ">>, sem |-> <<2, 19, 7>>],
      [text |-> <<"0",".","9",".","9">> \o <<"\n">>, sem |-> <<0, 9, 9>>],
      [text |-> <<"n","o","t","-","a","-","v","e","r","s","i","o","n">>, sem |-> <<>>],
      [text |-> <<>>, sem |-> <<>>],
      [text |-> <<"V","1",".","2",".","3">>, sem |-> <<>>],
      [text |-> <<"v","v","1",".","2",".","3">>, sem |-> <<>>],
      [text |-> <<"v","1",".","2">>, sem |-> <<>>],
      [text |-> <<"v","1",".","2",".","3",".","4">>, sem |-> <<>>],
      [text |-> <<"v","1",".",".","3">>, sem |-> <<>>],
      [text |-> <<"v","1",".","2",".">>, sem |-> <<>>],
      [text |-> <<".","2",".","3">>, sem |-> <<>>],
      [text |-> <<"v","1",".","2",".","3","-","c","o","p","y">>, sem |-> <<>>],
      [text |-> <<"v","1",".","2",".","x">>, sem |-> <<>>],
      [text |-> <<"v","1","."," ","2",".","3">>, sem |-> <<>>],
      [text |-> <<"v","-","1",".","2",".","3">>, sem |-> <<>>],
      [text |-> <<"v"," ","1",".","2",".","3">>, sem |-> <<>>],
      [text |-> <<"1",",","2",",","3">>, sem |-> <<>>],
      [text |-> <<"v","1",".","2",".","3","v">>, sem |-> <<>>] }

\* a kind the buttons never pass: bumpSemver treats it as "patch"
OtherKind == "build"

Labelled(label) ==
    << [ id |-> ForeignBase + 1, label |-> label, date |-> 0, summary |-> <<>>,
         notes |-> <<>>, changes |-> <<>>, bugs |-> <<>> ] >>

InitBump ==
    \E c \in SemverCases : MountInit(Present(JSONstringify("array", Labelled(c.text), 0)))

BumpCall ==
    /\ ~crashed
    /\ steps < MaxBumps
    /\ selectedIndex # 0
    /\ \E kind \in BumpKinds \cup {OtherKind} : BumpSelected(kind)

NextBump == BumpCall

SpecBump == InitBump /\ [][NextBump]_vars

\* ------------------------------------------------- imports and the render
\* In Spec every step ends with the render its state updates ask for, so each
\* handler closes over the current versions. reader.onload is no React event
\* handler: its setVersions only schedules a render, and an event that is
\* dispatched before that render runs the handlers of the render before.
\* SpecImports starts with up to MaxPending reads in flight and takes onload
\* and the render as two steps.
PendingFiles == { doExport(Stored), EmptyArrayText, MalformedText }

InitImports ==
    \E storage0 \in {Absent, Present(JSONstringify("array", Stored, 0))} :
        \E pending \in SUBSET PendingFiles :
            /\ Cardinality(pending) <= MaxPending
            /\ Mounted(storage0, pending)

\* reader.onload: the state updates are queued, the render is still to come
OnloadQueued ==
    /\ Handler
    /\ \E text \in reads :
        LET r == onload(versions, selectedId, text)
        IN  /\ versions' = r.versions
            /\ selectedId' = r.selectedId
            /\ reads' = reads \ {text}
            /\ Note("onload", NoId, NoId, "", ~r.alerted, FALSE, r.alerted, text)
    /\ UNCHANGED <<localStorage, setItemThrows, versionsType, rendered, crashed, download,
                   clock, nextId>>

\* the scheduled render: App runs with the new state, then the effect saves
Render ==
    /\ Handler
    /\ rendered # versions
    /\ LET bad == renderThrows("array", versions)
       IN  /\ rendered' = versions
           /\ crashed' = bad
           /\ localStorage' = IF bad THEN localStorage
                              ELSE save(localStorage, setItemThrows, versions)
           /\ Note("render", NoId, NoId, "", FALSE, bad, FALSE, <<>>)
    /\ UNCHANGED <<setItemThrows, versionsType, versions, selectedId, reads, download,
                   clock, nextId>>

\* a click on a bug's title in the feed: setSelectedId(b.versionId), b being a
\* bug of the feed as last rendered; the click's render follows at once
FeedSelect ==
    /\ Handler
    /\ \E i \in 1..Len(allBugs(rendered)) :
        LET b == allBugs(rendered)[i]
        IN  /\ Commit(versions, b.versionId, versions # rendered, 0)
            /\ Note("feedSelect", b.versionId, b.id, "", FALSE, FALSE, FALSE, <<>>)

NextImports ==
    \/ ImportStart \/ ImportError \/ OnloadQueued \/ Render \/ AddVersion \/ FeedSelect

SpecImports == InitImports /\ [][NextImports]_vars

\* ------------------------------------------------ duplicateVersion alone
\* In Spec the clock stands still while duplicateVersion runs. Here it may
\* move on between any two of the handler's nowISO() calls.
DuplicateTicking ==
    /\ Handler
    /\ \E id \in Targets : DuplicateCallAt("duplicateVersion", id, TRUE)

InitDuplicate ==
    \E storage0 \in {Absent, Present(JSONstringify("array", Stored, 0))} : MountInit(storage0)

NextDuplicate ==
    \/ DuplicateTicking \/ Select \/ AddChange

SpecDuplicate == InitDuplicate /\ [][NextDuplicate]_vars

\* ------------------------------------------- the scoped operations alone
\* The operations on one version, from the seed, from a stored collection, and
\* from a collection an import of the Twins file left in localStorage.
InitFrame ==
    \E storage0 \in { Absent, Present(JSONstringify("array", Stored, 0)),
                       Present(JSONstringify("array", Twins, 0)) } : MountInit(storage0)

NextFrame ==
    \/ UpdateVersion \/ AddChange \/ RemoveChange \/ AddBug \/ UpdateBug \/ DeleteBug

SpecFrame == InitFrame /\ [][NextFrame]_vars

\* ------------------------------------------------------- the search box
\* The query typed into the search box; filtered is recomputed from versions
\* and the query at each render. The query is kept in last.text.
Queries ==
    { <<>>, <<" "," ">>, <<" ","L","A"," ">>, <<"u","i">>, <<"F","I","X">>,
      <<"s","l","o","w">>, <<"s"," ","h">>, <<"c","r","u","i","s","e","r">>,
      <<"V","2">>, <<"t"," ">>, <<"N">>, <<"z","z">> }

SetQuery ==
    /\ Handler
    /\ \E q \in Queries : Note("search", NoId, NoId, "", FALSE, FALSE, FALSE, q)
    /\ UNCHANGED <<localStorage, setItemThrows, versionsType, versions, rendered, selectedId,
                   crashed, reads, download, clock, nextId>>

InitSearch ==
    \E storage0 \in {Absent, Present(JSONstringify("array", Stored, 0))} : MountInit(storage0)

NextSearch ==
    \/ SetQuery \/ AddVersion \/ UpdateVersion \/ AddChange \/ AddBug

SpecSearch == InitSearch /\ [][NextSearch]_vars

\* -------------------------------------------------------------- properties
WellFormed == versionsType = "array" /\ \A i \in 1..Len(versions) : IsVersion(versions[i])
Severities == {"all", "low", "medium", "high", "critical"}
FeedQueries == { <<>>, <<" ","L","A"," ">>, <<"u","i">>, <<"s","l","o","w">> }
Count(seq, x) == Cardinality({i \in 1..Len(seq) : seq[i] = x})
BugStatuses(vs) ==
    UNION {{vs[i].bugs[j].status : j \in 1..Len(vs[i].bugs)} : i \in 1..Len(vs)}

\* C1: after deleteVersion(X) on a version X of the collection, no version
\* with id X remains, and under every setting of the feed's onlyOpen,
\* severity and text filters no entry of the aggregated feed belongs to X.
DeleteOps == {"deleteVersion", "deleteButton"}
DeletedIsGone ==
    (last.op \in DeleteOps /\ ~last.threw /\ FindIndex(prev, last.vid) # 0) =>
        /\ FindIndex(versions, last.vid) = 0
        /\ Len(versions) < Len(prev)
        /\ \A q \in FeedQueries, sev \in Severities, oo \in BOOLEAN :
            LET feed == visibleGlobalBugs(versions, q, sev, oo)
            IN  \A k \in 1..Len(feed) : feed[k].versionId # last.vid

DeletedIsGoneWitness ==
    /\ last.op = "deleteVersion"
    /\ FindIndex(prev, last.vid) # 0
    /\ \E j \in 1..Len(prev[FindIndex(prev, last.vid)].bugs) :
           isOpen(prev[FindIndex(prev, last.vid)].bugs[j])
    /\ Len(visibleGlobalBugs(versions, <<>>, "all", FALSE)) > 0

\* C2: a read that completes with malformed JSON, or with JSON whose top
\* level is no array, leaves the collection and the selection as they were
\* and raises the failure notification.
BadFiles == {MalformedText, ObjectText}
BadImportChangesNothing ==
    (last.op = "onload" /\ last.text \in BadFiles) =>
        /\ versions = prev
        /\ selectedId = prevSel
        /\ last.alerted
        /\ ~crashed

BadImportWitness ==
    /\ last.op = "onload"
    /\ last.text = ObjectText
    /\ Len(prev) > 0
    /\ prevSel # NoId

\* C3: importing the document that Export writes for a collection yields that
\* collection again: same versions, same order, same ids and field values.
\* (Every collection is tried in the state that first holds it.)
ExportImportRoundTrip ==
    /\ (~crashed /\ (versions # prev \/ last.op = "mount")) =>
        LET r == onload(versions, selectedId, doExport(versions))
        IN  r.versions = versions /\ ~r.alerted
    /\ (last.op = "onload" /\ last.text = doExport(prev)) => versions = prev

ExportImportWitness ==
    /\ last.op = "onload"
    /\ last.text = doExport(prev)
    /\ Len(prev) = 2
    /\ \E i \in 1..2 : Len(prev[i].bugs) > 1 /\ Len(prev[i].changes) > 0
    /\ versions = prev

\* the bugs updateBug was aimed at: <<i, j>> with prev[i] the target version
UpdatedBugs ==
    IF last.op \in {"updateBug", "feedResolve"} /\ FindIndex(prev, last.vid) # 0
    THEN {<<FindIndex(prev, last.vid), j>> :
            j \in {k \in 1..Len(prev[FindIndex(prev, last.vid)].bugs) :
                     prev[FindIndex(prev, last.vid)].bugs[k].id = last.xid}}
    ELSE {}

\* C4: updateBug on an existing bug sets updatedAt to a timestamp
\* greater than or equal to the bug's previous updatedAt.
UpdatedAtNeverDecreases ==
    \A t \in UpdatedBugs :
        versions[t[1]].bugs[t[2]].updatedAt >= prev[t[1]].bugs[t[2]].updatedAt

\* What updateBug does: it sets updatedAt to the time of the call, also when
\* the patch is empty; a bug whose updatedAt lies after that time moves back.
UpdatedAtIsNow ==
    \A t \in UpdatedBugs :
        /\ versions[t[1]].bugs[t[2]].updatedAt = last.now
        /\ prev[t[1]].bugs[t[2]].updatedAt <= last.now =>
              versions[t[1]].bugs[t[2]].updatedAt >= prev[t[1]].bugs[t[2]].updatedAt

UpdatedAtWitness ==
    /\ last.op = "updateBug"
    /\ last.arg = ""
    /\ \E t \in UpdatedBugs :
        /\ prev[t[1]].bugs[t[2]].updatedAt < last.now
        /\ versions[t[1]].bugs[t[2]].updatedAt = last.now

\* C5: duplicateVersion(X) on an existing version prepends a version whose id
\* differs from X, each of whose bugs has status open whatever the status of
\* the bug it copies.
DuplicateOps == {"duplicateVersion", "duplicateButton"}
DuplicateIsFreshAndOpen ==
    (last.op \in DuplicateOps /\ FindIndex(prev, last.vid) # 0) =>
        /\ Len(versions) = Len(prev) + 1
        /\ versions[1].id # last.vid
        /\ Len(versions[1].bugs) = Len(prev[FindIndex(prev, last.vid)].bugs)
        /\ \A j \in 1..Len(versions[1].bugs) : versions[1].bugs[j].status = "open"

DuplicateWitness ==
    /\ last.op = "duplicateVersion"
    /\ FindIndex(prev, last.vid) # 0
    /\ \E j \in 1..Len(prev[FindIndex(prev, last.vid)].bugs) :
           prev[FindIndex(prev, last.vid)].bugs[j].status = "closed"
    /\ Len(versions) = Len(prev) + 1

\* C6: with onlyOpen set, severity all and an empty query, the feed holds
\* exactly the bugs whose status is neither resolved nor closed, each as often
\* as the collection holds it, in descending order of updatedAt.
OpenFeed == visibleGlobalBugs(versions, <<>>, "all", TRUE)
OpenFeedIsExactAndSorted ==
    ~crashed =>
        LET feed == OpenFeed
            all == allBugs(versions)
        IN  /\ \A k \in 1..Len(feed) :
                /\ feed[k].status \notin {"resolved", "closed"}
                /\ Count(feed, feed[k]) = Count(all, feed[k])
            /\ \A k \in 1..Len(all) :
                all[k].status \notin {"resolved", "closed"} => Count(feed, all[k]) > 0
            /\ \A k \in 1..(Len(feed) - 1) :
                feed[k].updatedAt >= feed[k + 1].updatedAt

OpenFeedWitness ==
    /\ ~crashed
    /\ {"open", "resolved", "closed"} \subseteq BugStatuses(versions)
    /\ Len(OpenFeed) >= 2
    /\ OpenFeed[1].versionId # OpenFeed[2].versionId
    /\ OpenFeed[1].updatedAt > OpenFeed[2].updatedAt
    /\ \E k \in 1..Len(allBugs(versions)) :
        isOpen(allBugs(versions)[k]) /\ allBugs(versions)[k].updatedAt < OpenFeed[1].updatedAt
           /\ \A m \in (k + 1)..Len(allBugs(versions)) :
                 ~isOpen(allBugs(versions)[m]) \/ allBugs(versions)[m] = OpenFeed[1]

\* C7: bump(label, kind) is v{M}.{m}.{p} computed from the version the label
\* denotes (0.0.0 when it denotes none): major gives (M+1, 0, 0), minor gives
\* (M, m+1, 0), patch and every other kind give (M, m, p+1).
Numeral(n) ==
    IF n < 10 THEN <<Digits[n + 1]>>
    ELSE IF n < 100 THEN <<Digits[(n \div 10) + 1], Digits[(n % 10) + 1]>>
    ELSE <<Digits[(n \div 100) + 1], Digits[((n \div 10) % 10) + 1], Digits[(n % 10) + 1]>>
Written(t) == <<"v">> \o Numeral(t[1]) \o <<".">> \o Numeral(t[2]) \o <<".">> \o Numeral(t[3])
Rule(t, kind) ==
    IF kind = "major" THEN <<t[1] + 1, 0, 0>>
    ELSE IF kind = "minor" THEN <<t[1], t[2] + 1, 0>>
    ELSE <<t[1], t[2], t[3] + 1>>
RECURSIVE Bumped(_)
Bumped(n) ==
    IF n = 0 THEN {IF c.sem = <<>> THEN <<0, 0, 0>> ELSE c.sem : c \in SemverCases}
    ELSE Bumped(n - 1) \cup {Rule(t, k) : t \in Bumped(n - 1), k \in BumpKinds}
\* the version a label denotes
Denoted(label) ==
    IF \E c \in SemverCases : c.text = label
    THEN LET c == CHOOSE c \in SemverCases : c.text = label
         IN  IF c.sem = <<>> THEN <<0, 0, 0>> ELSE c.sem
    ELSE CHOOSE t \in Bumped(MaxBumps) : Written(t) = label

BumpFollowsRule ==
    (last.op = "bump" /\ FindIndex(prev, last.vid) # 0) =>
        LET old == prev[FindIndex(prev, last.vid)].label
            new == versions[FindIndex(versions, last.vid)].label
        IN  /\ new = Written(Rule(Denoted(old), last.arg))
            /\ old = <<"v","1",".","2",".","3">> =>
                  new = (IF last.arg = "major" THEN <<"v","2",".","0",".","0">>
                         ELSE IF last.arg = "minor" THEN <<"v","1",".","3",".","0">>
                         ELSE <<"v","1",".","2",".","4">>)
            /\ (old = <<"n","o","t","-","a","-","v","e","r","s","i","o","n">> /\ last.arg = "patch") => new = <<"v","0",".","0",".","1">>

BumpWitness ==
    /\ last.op = "bump"
    /\ last.arg = OtherKind
    /\ Len(prev) = 1 /\ Len(versions) = 1
    /\ prev[1].label = <<"v","9",".","9",".","1","0">>
    /\ versions[1].label = <<"v","9",".","9",".","1","1">>

\* C8: an operation called with a version id that matches no version, or with
\* a change or bug id that matches nothing in the target version, leaves the
\* collection as it was and raises no error.
VersionOps == {"updateVersion", "deleteVersion", "duplicateVersion", "addChange",
               "removeChange", "addBug", "updateBug", "deleteBug"}
ItemOps == {"removeChange", "updateBug", "deleteBug"}
MissingIdIsNoOp ==
    (\/ last.op \in VersionOps /\ last.vid = MissingId
     \/ last.op \in ItemOps /\ last.xid = MissingId) =>
        /\ versions = prev
        /\ ~last.threw
        /\ ~last.alerted
        /\ ~crashed

MissingIdWitness ==
    /\ last.op = "updateBug"
    /\ last.arg = "status"
    /\ last.vid # MissingId
    /\ last.xid = MissingId
    /\ FindIndex(prev, last.vid) # 0
    /\ Len(prev[FindIndex(prev, last.vid)].bugs) > 1
    /\ versions = prev

\* C9: while the collection holds only well-formed versions no
\* action the UI offers ends in an uncaught exception; Duplicate and Delete
\* with no version selected are harmless no-ops.
NoUncaughtException ==
    WellFormed => ~last.threw

\* C10: load yields the seed whenever the key is absent or the
\* stored string does not parse as a collection, so the versions state after
\* mount is a sequence of versions and no error is raised.
NotACollection == {MalformedText, NullText, NumberText, ObjectText, JunkArrayText}
LoadFallsBackToSeed ==
    last.op = "mount" =>
        /\ versionsType = "array"
        /\ \A i \in 1..Len(versions) : IsVersion(versions[i])
        /\ ~crashed
        /\ ~last.threw
        /\ (last.text \in NotACollection \/ last.text = <<>>) =>
              versions = seed(last.id0, last.now)

\* C11: no two versions of the collection share an id, in every state reached
\* from the seed or a loaded collection with unique ids by the operations and
\* successful imports.
UniqueVersionIds ==
    WellFormed =>
        \A i, j \in 1..Len(versions) : versions[i].id = versions[j].id => i = j

\* C12: while writes succeed, after every step that changed the collection
\* localStorage holds its serialization, so a reload loads exactly that
\* collection; an emptied collection is loaded as empty, not as the seed.
Environment == {"tick", "quota"}
WriteFailureIsSilent ==
    [][ (setItemThrows /\ ~crashed /\ versions' # versions /\ last'.op # "mount") =>
            /\ localStorage' = localStorage
            /\ ~last'.threw
            /\ ~last'.alerted
            /\ last'.called
            /\ prev' = versions /\ versions' # prev'
            /\ (WellFormed' => ~crashed') ]_vars

WriteFailureWitness ==
    /\ setItemThrows /\ ~crashed
    /\ last.op = "addVersion"
    /\ Len(versions) = Len(prev) + 1
    /\ load(localStorage, seed(nextId, clock)).val = prev
    /\ selectedId = versions[1].id

\* every id a collection holds: of its versions, their changes and their bugs
AllIds(vs) ==
    UNION { {vs[i].id} \cup {vs[i].changes[k].id : k \in 1..Len(vs[i].changes)}
                       \cup {vs[i].bugs[j].id : j \in 1..Len(vs[i].bugs)} : i \in 1..Len(vs) }
Blank(text) == \A k \in 1..Len(text) : text[k] \in WhiteSpace

\* C14: Add in the change composer puts a new change with a fresh id, the
\* chosen type and the entered text (trimmed) in front of the target version's
\* changes, and changes nothing when the version is not found or the text is
\* empty or only whitespace.
AddChangePrepends ==
    last.op = "addChange" =>
        LET i == FindIndex(prev, last.vid)
        IN  IF i = 0 \/ Blank(last.text) THEN versions = prev /\ ~last.called
            ELSE /\ Len(versions) = Len(prev)
                 /\ versions[i].changes =
                        <<[id |-> last.id0, type |-> last.arg, text |-> trim(last.text)]>>
                        \o prev[i].changes
                 /\ last.text = <<" ","O","k"," ">> => versions[i].changes[1].text = <<"O","k">>
                 /\ last.id0 \notin AllIds(prev)

AddChangeWitness ==
    /\ last.op = "addChange"
    /\ FindIndex(prev, last.vid) # 0
    /\ ~Blank(last.text)
    /\ Len(prev[FindIndex(prev, last.vid)].changes) > 0
    /\ Len(versions[FindIndex(prev, last.vid)].changes) > 1

\* C15: when a read completes with a document whose top level is an array A,
\* the collection becomes exactly A, entries unchecked, and the selection
\* becomes the id of A's first entry, or none when A is empty.
ArrayFiles ==
    { [text |-> doExport(Stored), val |-> Stored, sel |-> ForeignBase + 1],
      [text |-> doExport(Twins), val |-> Twins, sel |-> ForeignBase + 3],
      [text |-> EmptyArrayText, val |-> <<>>, sel |-> NoId],
      [text |-> JunkArrayText, val |-> <<null>>, sel |-> NoId] }
ImportReplaces ==
    last.op = "onload" =>
        /\ \A f \in ArrayFiles :
              last.text = f.text => versions = f.val /\ selectedId = f.sel /\ ~last.alerted
        /\ (JSONparse(last.text).ok /\ JSONparse(last.text).type = "array") =>
              /\ versions = JSONparse(last.text).val
              /\ ~last.alerted
              /\ IF versions = <<>> THEN selectedId = NoId
                 ELSE IsVersion(versions[1]) => selectedId = versions[1].id

ImportReplacesWitness ==
    /\ last.op = "onload"
    /\ last.text = doExport(Stored)
    /\ prev # <<>> /\ prev # Stored
    /\ prevSel # ForeignBase + 1
    /\ versions = Stored
    /\ selectedId = ForeignBase + 1

\* C16: addVersion puts in front of the collection, which stays as it was
\* behind it, a version with a fresh id, no summary, notes, changes or bugs,
\* and the label a minor bump gives the first version's label (v0.1.0 when
\* there is no first version or its label is empty or no version number); the
\* new version becomes the selection.
SmallNumbers == 0..(MaxSteps + 4)
ExpectedLabel(vs) ==
    IF vs # <<>> /\ \E a, b, c \in SmallNumbers : vs[1].label = Written(<<a, b, c>>)
    THEN LET t == CHOOSE t \in SmallNumbers \X SmallNumbers \X SmallNumbers :
                      vs[1].label = Written(t)
         IN  Written(<<t[1], t[2] + 1, 0>>)
    ELSE <<"v","0",".","1",".","0">>
AddVersionPrepends ==
    last.op = "addVersion" =>
        /\ Len(versions) = Len(prev) + 1
        /\ Tail(versions) = prev
        /\ versions[1] = [ id |-> last.id0, label |-> ExpectedLabel(prev), date |-> last.now,
                           summary |-> <<>>, notes |-> <<>>, changes |-> <<>>, bugs |-> <<>> ]
        /\ last.id0 \notin AllIds(prev)
        /\ selectedId = versions[1].id
        /\ (prev # <<>> /\ prev[1].label = <<"v","1",".","2",".","3">>) => versions[1].label = <<"v","1",".","3",".","0">>
        /\ (prev # <<>> /\ prev[1].label = <<"n","o","t","-","a","-","v","e","r","s","i","o","n">>) => versions[1].label = <<"v","0",".","1",".","0">>

AddVersionWitness ==
    /\ last.op = "addVersion"
    /\ Len(prev) = 2
    /\ prev[1].label = <<"v","1",".","2",".","3">>
    /\ versions[1].label = <<"v","1",".","3",".","0">>
    /\ Tail(versions) = prev

\* C17: addBug on an existing version puts in front of its bugs a bug with a
\* fresh id, the placeholder title when the given title is empty, severity
\* low, status open and no tags when none are given, and createdAt and
\* updatedAt both the time of the call.
AddBugDefaults ==
    (last.op = "addBug" /\ FindIndex(prev, last.vid) # 0) =>
        LET i == FindIndex(prev, last.vid)
            b == versions[i].bugs[1]
        IN  /\ Len(versions) = Len(prev)
            /\ Tail(versions[i].bugs) = prev[i].bugs
            /\ b.id = last.id0 /\ b.id \notin AllIds(prev)
            /\ b.status = "open"
            /\ IF last.arg = "untitled"
               THEN /\ b.title = <<"U","n","t","i","t","l","e","d"," ","b","u","g">>
                    /\ b.description = <<>>
                    /\ b.severity = "low"
                    /\ b.tags = <<>>
               ELSE /\ b.title = <<"B","u","g">>
                    /\ b.description = <<"d">>
                    /\ b.severity = "critical"
                    /\ b.tags = << <<"T">> >>
            /\ b.createdAt = last.now
            /\ b.updatedAt = last.now
            /\ b.createdAt = b.updatedAt

\* What addBug does hold to: the same, with updatedAt read from the clock
\* after createdAt, so never earlier and possibly later.
AddBugStampsInOrder ==
    (last.op = "addBug" /\ FindIndex(prev, last.vid) # 0) =>
        LET b == versions[FindIndex(prev, last.vid)].bugs[1]
        IN  b.createdAt = last.now /\ b.createdAt <= b.updatedAt /\ b.updatedAt = clock

\* C20: the open-bug count is the number of bugs, over all versions, whose
\* status is neither resolved nor closed (any other status counts as open),
\* and so equals the length of the feed with onlyOpen set, severity all and an
\* empty query.
NotDone(vs) ==
    UNION { { <<i, j>> : j \in {k \in 1..Len(vs[i].bugs) :
                                   vs[i].bugs[k].status \notin {"resolved", "closed"}} } :
            i \in 1..Len(vs) }
OpenCountIsExact ==
    ~crashed =>
        /\ openBugs(versions) = Cardinality(NotDone(versions))
        /\ openBugs(versions) = Len(OpenFeed)

OpenCountWitness ==
    /\ ~crashed
    /\ last.op = "feedResolve"
    /\ "in_progress" \in BugStatuses(versions)
    /\ {"resolved", "closed"} \subseteq BugStatuses(versions)
    /\ openBugs(prev) = 2
    /\ openBugs(versions) = 1

\* C18: no update is lost: what a mutation publishes is computed from the
\* collection the step before it left, whenever user actions and import
\* completions interleave. A version added or duplicated has that collection
\* behind it, an operation on one version keeps the other versions of that
\* collection, and a delete removes from that collection.
ScopedOps == {"updateVersion", "bump", "addChange", "removeChange", "addBug", "updateBug",
              "deleteBug", "feedResolve", "feedDelete"}
NoLostUpdate ==
    /\ (last.op \in {"addVersion"} \cup DuplicateOps /\ last.called) =>
          /\ Len(versions) = Len(prev) + 1
          /\ Tail(versions) = prev
    /\ (last.op \in ScopedOps /\ last.called) =>
          /\ Len(versions) = Len(prev)
          /\ \A i \in 1..Len(prev) : prev[i].id # last.vid => versions[i] = prev[i]
    /\ (last.op \in DeleteOps /\ ~last.threw) =>
          versions = FilterIdx(prev, {i \in 1..Len(prev) : prev[i].id # last.vid}, 1)

\* C19: an import changes the collection only when its read completes with
\* an array: starting a read, a read that fails and a read that completes with
\* a bad document leave collection and selection as they were, and of several
\* pending reads each completion installs its own document, so the one that
\* completes last is the one that stays.
ImportOnlyOnCompletion ==
    /\ last.op \in {"doImport", "readError"} => versions = prev /\ selectedId = prevSel
    /\ (last.op = "onload" /\ last.alerted) => versions = prev /\ selectedId = prevSel
    /\ (last.op = "onload" /\ ~last.alerted) =>
          /\ last.text \notin reads
          /\ versions = JSONparse(last.text).val
          /\ last.text = doExport(Stored) => versions = Stored /\ selectedId = ForeignBase + 1
          /\ last.text = EmptyArrayText => versions = <<>> /\ selectedId = NoId

ImportOnlyOnCompletionWitness ==
    /\ last.op = "onload"
    /\ last.text = doExport(Stored)
    /\ steps = 2
    /\ reads = {}
    /\ prev = <<>>
    /\ versions = Stored

\* the same letter, whatever the case
SameLetter(a, b) == a = b \/ \E k \in 1..26 : {a, b} = {Upper[k], Lower[k]}
\* text holds q somewhere, case ignored
Holds(text, q) ==
    \E off \in 0..(Len(text) - Len(q)) : \A k \in 1..Len(q) : SameLetter(text[off + k], q[k])
\* q occurs in one of the searched fields of v
OccursIn(v, q) ==
    \/ Holds(v.label, q) \/ Holds(v.summary, q) \/ Holds(v.notes, q)
    \/ \E k \in 1..Len(v.changes) : Holds(v.changes[k].text, q)
    \/ \E j \in 1..Len(v.bugs) :
          Holds(v.bugs[j].title, q) \/ Holds(join(v.bugs[j].tags, <<" ">>), q)
\* res is the versions of vs at the positions K, in their order in vs
Picks(res, vs, K) ==
    /\ Len(res) = Cardinality(K)
    /\ \A n \in 1..Len(res) :
          res[n] = vs[CHOOSE i \in K : Cardinality({j \in K : j <= i}) = n]
Shown == filtered(versions, last.text)

\* C21 as stated: the search lists every version, in order, for an empty or
\* whitespace-only query, and otherwise exactly the versions that hold the
\* lower-cased query in the lower-cased label, summary or notes, in a change's
\* text, or in a bug's title or space-joined tags, in their order.
SearchMatchesQuery ==
    (last.op = "search" /\ ~crashed) =>
        IF Blank(last.text) THEN Shown = versions
        ELSE Picks(Shown, versions,
                   {i \in 1..Len(versions) : OccursIn(versions[i], last.text)})

\* C21, amended: the query is trimmed before it is matched.
SearchMatchesTrimmedQuery ==
    (last.op = "search" /\ ~crashed) =>
        /\ IF Blank(last.text) THEN Shown = versions
           ELSE Picks(Shown, versions,
                      {i \in 1..Len(versions) : OccursIn(versions[i], trim(last.text))})
        /\ (last.text = <<" ","L","A"," ">> /\ versions = Stored) => Shown = <<Stored[1]>>
        /\ (last.text = <<"s","l","o","w">> /\ versions = Stored) => Shown = <<>>
        /\ (last.text = <<"N">> /\ versions = Stored) => Shown = <<Stored[2]>>

SearchWitness ==
    /\ last.op = "search" /\ ~crashed
    /\ last.text = <<"s"," ","h">>
    /\ Len(versions) = 2
    /\ Shown = <<versions[2]>>
    /\ ~OccursIn(versions[1], last.text)
    /\ \E j \in 1..Len(versions[2].bugs) : Len(versions[2].bugs[j].tags) = 2

\* C22: duplicateVersion(X) puts in front of the collection, which stays as it
\* was behind it, a copy labelled X's label plus a suffix, with X's changes in
\* order (same type and text, fresh ids) and X's bugs in order (same title,
\* description, severity and tags, fresh ids, createdAt and updatedAt read
\* from the clock during the call); the fresh ids are new to the collection.
FreshIds(v) ==
    {v.id} \cup {v.changes[k].id : k \in 1..Len(v.changes)}
            \cup {v.bugs[j].id : j \in 1..Len(v.bugs)}
DuplicateCopiesDeeply ==
    (last.op = "duplicateVersion" /\ FindIndex(prev, last.vid) # 0) =>
        LET x == prev[FindIndex(prev, last.vid)]
            copy == versions[1]
        IN  /\ Len(versions) = Len(prev) + 1
            /\ Tail(versions) = prev
            /\ Len(copy.label) > Len(x.label)
            /\ SubSeq(copy.label, 1, Len(x.label)) = x.label
            /\ x.label = <<"v","1",".","2",".","3">> =>
                  copy.label = <<"v","1",".","2",".","3","-","c","o","p","y">>
            /\ Len(copy.changes) = Len(x.changes)
            /\ \A k \in 1..Len(x.changes) :
                  /\ copy.changes[k].type = x.changes[k].type
                  /\ copy.changes[k].text = x.changes[k].text
            /\ Len(copy.bugs) = Len(x.bugs)
            /\ \A j \in 1..Len(x.bugs) :
                  /\ copy.bugs[j].title = x.bugs[j].title
                  /\ copy.bugs[j].description = x.bugs[j].description
                  /\ copy.bugs[j].severity = x.bugs[j].severity
                  /\ copy.bugs[j].tags = x.bugs[j].tags
                  /\ copy.bugs[j].createdAt \in last.now..clock
                  /\ copy.bugs[j].updatedAt \in last.now..clock
            /\ FreshIds(copy) \cap AllIds(prev) = {}
            /\ Cardinality(FreshIds(copy)) = 1 + Len(x.changes) + Len(x.bugs)

DuplicateCopiesWitness ==
    /\ last.op = "duplicateVersion"
    /\ Len(prev) = 2
    /\ FindIndex(prev, last.vid) = 1
    /\ Len(prev[1].bugs) = 2 /\ Len(prev[1].changes) = 1
    /\ Len(versions) = 3
    /\ clock = last.now + 1
    /\ versions[1].bugs[1].updatedAt = last.now
    /\ versions[1].bugs[2].updatedAt = clock
    /\ prev[1].bugs[1].updatedAt > clock
    /\ prev[1].bugs[2].updatedAt < last.now

\* C23: the selection is none or the id of a version of the collection, in
\* every state, whatever handlers ran and whenever reads completed.
SelectionNeverDangles ==
    \/ selectedId = NoId
    \/ \E i \in 1..Len(versions) : IsVersion(versions[i]) /\ versions[i].id = selectedId

\* seq without its j-th element
Without(seq, j) == FilterIdx(seq, (1..Len(seq)) \ {j}, 1)
FrameOps == {"updateVersion", "addChange", "removeChange", "addBug", "updateBug", "deleteBug"}
BugOps == {"updateBug", "deleteBug"}

\* C24: an operation on version X keeps the number and order of the versions
\* and X's id and leaves every other version as it was; updateBug and
\* deleteBug on bug B also leave the other bugs of X as they were and in
\* their order, and updateBug with a status patch keeps B's id and createdAt.
ScopedOpsKeepTheRest ==
    (last.op \in FrameOps /\ FindIndex(prev, last.vid) # 0) =>
        LET i == FindIndex(prev, last.vid)
            j == FindIndex(prev[i].bugs, last.xid)
        IN  /\ Len(versions) = Len(prev)
            /\ \A k \in 1..Len(prev) : versions[k].id = prev[k].id
            /\ \A k \in 1..Len(prev) : k # i => versions[k] = prev[k]
            /\ (last.op = "updateBug" /\ j # 0) =>
                  /\ Len(versions[i].bugs) = Len(prev[i].bugs)
                  /\ Without(versions[i].bugs, j) = Without(prev[i].bugs, j)
            /\ (last.op = "deleteBug" /\ j # 0) =>
                  versions[i].bugs = Without(prev[i].bugs, j)
            /\ (last.op = "updateBug" /\ j # 0 /\ last.arg = "status") =>
                  /\ versions[i].bugs[j].id = prev[i].bugs[j].id
                  /\ versions[i].bugs[j].createdAt = prev[i].bugs[j].createdAt

\* what remains of C24 where ids repeat: the versions with another id than
\* X's, and the bugs of X with another id than B's, are left as they were
ScopedOpsKeepOtherIds ==
    (last.op \in FrameOps /\ FindIndex(prev, last.vid) # 0) =>
        /\ Len(versions) = Len(prev)
        /\ \A k \in 1..Len(prev) : versions[k].id = prev[k].id
        /\ \A k \in 1..Len(prev) : prev[k].id # last.vid => versions[k] = prev[k]
        /\ \A k \in 1..Len(prev) :
              (UniqueVersionIds /\ k = FindIndex(prev, last.vid) /\ last.op \in BugOps) =>
                  /\ FilterIdx(versions[k].bugs,
                        {n \in 1..Len(versions[k].bugs) : versions[k].bugs[n].id # last.xid}, 1)
                     = FilterIdx(prev[k].bugs,
                        {n \in 1..Len(prev[k].bugs) : prev[k].bugs[n].id # last.xid}, 1)
                  /\ last.op = "deleteBug" =>
                        \A n \in 1..Len(versions[k].bugs) : versions[k].bugs[n].id # last.xid
====
